---- MODULE Spec2Model ----
(***************************************************************************)
(* Model of by_isp_coverage/validators.py: the ConnectionValidator field   *)
(* pipeline (lazy generator chain, per-field strategies, record fan-out,   *)
(* mutation callbacks) and the Toponym parser.                             *)
(*                                                                         *)
(* Text is modelled as a sequence of characters.  A Cyrillic character is  *)
(* written as a Latin token of the same case:                              *)
(*   а a  б b  в v  г g  д d  е e  ж zh  з z  и i  й j  к k  л l  м m      *)
(*   н n  о o  п p  р r  с s  т t  у u  ф f  х x  ц c  ч ch  ш sh  щ sch   *)
(*   ы y  ь sf  э eh  ю yu  я ya  (upper case: the token in upper case)    *)
(* Digits, punctuation and the space are themselves.                       *)
(***************************************************************************)
EXTENDS Integers, Sequences, FiniteSets, TLC

VARIABLES
    kwargs,     \* keyword arguments the caller passes to ConnectionValidator()
    fields,     \* self.fields
    input,      \* the connections iterable handed to the generator chain (ids)
    heap,       \* the Connection objects, by identity
    stages,     \* one __validate_field generator frame per configured field
    consumed,   \* how many items have been pulled from the input iterable
    output,     \* what the consumer has received so far (ids)
    last,       \* outcome of the consumer's latest next(): none/item/stop/error
    pc,         \* position of the caller
    err,        \* the exception that ended the run, "" if none
    toponym     \* the Toponym object under construction

vars == <<kwargs, fields, input, heap, stages, consumed, output, last, pc, err, toponym>>

(***************************************************************************)
(* Characters                                                              *)
(***************************************************************************)
Letters ==
    << <<"A", "a">>, <<"B", "b">>, <<"V", "v">>, <<"G", "g">>, <<"D", "d">>,
       <<"E", "e">>, <<"YO", "yo">>, <<"ZH", "zh">>, <<"Z", "z">>, <<"I", "i">>,
       <<"J", "j">>, <<"K", "k">>, <<"L", "l">>, <<"M", "m">>, <<"N", "n">>,
       <<"O", "o">>, <<"P", "p">>, <<"R", "r">>, <<"S", "s">>, <<"T", "t">>,
       <<"U", "u">>, <<"F", "f">>, <<"X", "x">>, <<"C", "c">>, <<"CH", "ch">>,
       <<"SH", "sh">>, <<"SCH", "sch">>, <<"HD", "hd">>, <<"Y", "y">>,
       <<"SF", "sf">>, <<"EH", "eh">>, <<"YU", "yu">>, <<"YA", "ya">> >>

UpperLetters == {Letters[i][1] : i \in DOMAIN Letters}
LowerLetters == {Letters[i][2] : i \in DOMAIN Letters}
Digits == {"0", "1", "2", "3", "4", "5", "6", "7", "8", "9"}

IsCased(c) == c \in UpperLetters \cup LowerLetters
\* \d, \w and \s of the regex module under regex.UNICODE
IsDigit(c) == c \in Digits
IsWord(c) == IsCased(c) \/ IsDigit(c) \/ c = "_"
IsSpace(c) == c = " "

LowerChar(c) ==
    IF c \in UpperLetters
    THEN Letters[CHOOSE i \in DOMAIN Letters : Letters[i][1] = c][2]
    ELSE c

UpperChar(c) ==
    IF c \in LowerLetters
    THEN Letters[CHOOSE i \in DOMAIN Letters : Letters[i][2] = c][1]
    ELSE c

(***************************************************************************)
(* str methods used by the validators                                      *)
(***************************************************************************)
\* s[i:i+len(p)] == p   (i is 1-based)
MatchAt(s, i, p) ==
    /\ i >= 1
    /\ i + Len(p) - 1 <= Len(s)
    /\ \A j \in 1..Len(p) : s[i + j - 1] = p[j]

\* p in s   (p not empty)
Contains(s, p) == \E i \in 1..Len(s) : MatchAt(s, i, p)

\* s.endswith(p)
EndsWith(s, p) == Len(p) <= Len(s) /\ MatchAt(s, Len(s) - Len(p) + 1, p)

\* s.lower()
lower(s) == [i \in 1..Len(s) |-> LowerChar(s[i])]

\* s.title(): a cased character is upper-cased after an uncased one (or at the
\* start), lower-cased after a cased one
title(s) ==
    [i \in 1..Len(s) |->
        IF ~IsCased(s[i]) THEN s[i]
        ELSE IF i = 1 \/ ~IsCased(s[i - 1]) THEN UpperChar(s[i])
        ELSE LowerChar(s[i])]

\* s.isdecimal()
isdecimal(s) == Len(s) > 0 /\ \A i \in 1..Len(s) : IsDigit(s[i])

\* s.strip()
strip(s) ==
    LET keep == {i \in 1..Len(s) : ~IsSpace(s[i])}
    IN  IF keep = {} THEN <<>>
        ELSE LET lo == CHOOSE i \in keep : \A j \in keep : i <= j
                 hi == CHOOSE i \in keep : \A j \in keep : i >= j
             IN  SubSeq(s, lo, hi)

RECURSIVE ReplaceFrom(_, _, _, _)
ReplaceFrom(s, old, new, i) ==
    IF i > Len(s) THEN <<>>
    ELSE IF MatchAt(s, i, old) THEN new \o ReplaceFrom(s, old, new, i + Len(old))
    ELSE <<s[i]>> \o ReplaceFrom(s, old, new, i + 1)

\* s.replace(old, new): every non-overlapping occurrence, left to right (old not empty)
replace(s, old, new) == ReplaceFrom(s, old, new, 1)

RECURSIVE SplitFrom(_, _, _, _)
SplitFrom(s, sep, i, cur) ==
    IF i > Len(s) THEN <<cur>>
    ELSE IF s[i] = sep THEN <<cur>> \o SplitFrom(s, sep, i + 1, <<>>)
    ELSE SplitFrom(s, sep, i + 1, Append(cur, s[i]))

\* s.split(sep) for a one-character separator
split(s, sep) == SplitFrom(s, sep, 1, <<>>)

(***************************************************************************)
(* Module constants                                                        *)
(***************************************************************************)
\* ("д.г.п.", "п.г.т", "аг.", "г.п.", "агр.", "д.", "г.", "п.", "к.")
CITY_PARTS_TO_EXCLUDE ==
    << <<"d", ".", "g", ".", "p", ".">>, <<"p", ".", "g", ".", "t">>,
       <<"a", "g", ".">>, <<"g", ".", "p", ".">>, <<"a", "g", "r", ".">>,
       <<"d", ".">>, <<"g", ".">>, <<"p", ".">>, <<"k", ".">> >>

\* "юр. лица"
MarkerShort == <<"yu", "r", ".", " ", "l", "i", "c", "a">>
\* "ЮР. ЛИЦА"
MarkerShortUpper == <<"YU", "R", ".", " ", "L", "I", "C", "A">>
\* "юридические лица"
MarkerLong == <<"yu", "r", "i", "d", "i", "ch", "e", "s", "k", "i", "e", " ", "l", "i", "c", "a">>
\* "(юридические лица)"
MarkerLongParen == <<"(">> \o MarkerLong \o <<")">>
\* " (юридические лица)"
StatusSuffix == <<" ">> \o MarkerLongParen
\* " (корпус "
BuildingInfix == <<" ", "(", "k", "o", "r", "p", "u", "s", " ">>

\* [-/\s]
IsDelimChar(c) == c \in {"-", "/"} \/ IsSpace(c)

(***************************************************************************)
(* RE_BUILDING_NUMBER.match(house):                                        *)
(*   ^(?P<house_number>\d+),?(?P<delimiter>([-/\s]*| (к|К)\.[ ]?))()()     *)
(*    (?P<building>\w+)$                                                   *)
(* A way to match is (d, c, alt, m): d digits, c commas (0 or 1), the      *)
(* delimiter's alternative alt with m characters, then the building up to  *)
(* the end.  The backtracking matcher returns the first way in the order   *)
(* greedy \d+, greedy ",?", alternative 1 before 2, greedy inside each.    *)
(***************************************************************************)
BuildingWays(s) ==
    {w \in [d : 1..Len(s), c : {0, 1}, alt : {1, 2}, m : 0..Len(s)] :
        LET j == w.d + w.c + 1          \* where the delimiter starts
            k == j + w.m                \* where the building starts
        IN  /\ \A i \in 1..w.d : IsDigit(s[i])
            /\ w.c = 1 => (w.d + 1 <= Len(s) /\ s[w.d + 1] = ",")
            /\ k <= Len(s)
            /\ \A i \in k..Len(s) : IsWord(s[i])
            /\ \/ w.alt = 1 /\ \A i \in j..(k - 1) : IsDelimChar(s[i])
               \/ /\ w.alt = 2
                  /\ w.m \in {3, 4}
                  /\ s[j] = " "
                  /\ s[j + 1] \in {"k", "K"}
                  /\ s[j + 2] = "."
                  /\ w.m = 4 => s[j + 3] = " "}

TriedBefore(a, b) ==
    \/ a.d > b.d
    \/ a.d = b.d /\ a.c > b.c
    \/ a.d = b.d /\ a.c = b.c /\ a.alt < b.alt
    \/ a.d = b.d /\ a.c = b.c /\ a.alt = b.alt /\ a.m > b.m

RE_BUILDING_NUMBER(s) ==
    LET ways == BuildingWays(s)
    IN  IF ways = {} THEN [matched |-> FALSE, house_number |-> <<>>, building |-> <<>>]
        ELSE LET w == CHOOSE a \in ways : \A b \in ways : a = b \/ TriedBefore(a, b)
             IN  [matched |-> TRUE,
                  house_number |-> SubSeq(s, 1, w.d),
                  building |-> SubSeq(s, w.d + w.c + w.m + 1, Len(s))]

is_for_artificial_person(house_str) ==
    LET s == lower(house_str)
    IN  Contains(s, MarkerShort) \/ Contains(s, MarkerLong)

(***************************************************************************)
(* Field strategies.  A strategy returns a list of candidates; a candidate *)
(* is [v, cb]: cb = "" for a bare value, the callback's name for a         *)
(* (value, callback) pair.                                                 *)
(***************************************************************************)
Bare(v) == [v |-> v, cb |-> ""]
Pair(v, cb) == [v |-> v, cb |-> cb]

RECURSIVE ExcludeParts(_, _)
ExcludeParts(city, k) ==
    IF k > Len(CITY_PARTS_TO_EXCLUDE) THEN city
    ELSE LET part == CITY_PARTS_TO_EXCLUDE[k]
         IN  ExcludeParts(IF Contains(city, part) THEN replace(city, part, <<>>) ELSE city,
                          k + 1)

validate_city_field(city) ==
    LET c1 == IF EndsWith(city, <<" ", "p">>) THEN replace(city, <<" ", "p">>, <<>>) ELSE city
        c2 == ExcludeParts(c1, 1)
        c3 == title(lower(c2))
    IN  <<Bare(strip(c3))>>

NonEmpty(segs) == SelectSeq(segs, LAMBDA h : h # <<>>)

\* validate_house_field with the comma-split tried before the artificial-person
\* marker
validate_house_field_split_first(house) ==
    LET match == RE_BUILDING_NUMBER(house)
    IN  IF isdecimal(house) THEN <<Bare(house)>>
        ELSE IF match.matched
        THEN <<Bare(match.house_number \o BuildingInfix \o match.building \o <<")">>)>>
        ELSE IF Contains(house, <<",">>)
        THEN LET houses == NonEmpty(split(replace(house, <<" ">>, <<>>), ","))
             IN  [i \in 1..Len(houses) |-> Bare(houses[i])]
        ELSE IF is_for_artificial_person(house)
        THEN LET h1 == replace(house, MarkerLongParen, <<>>)
                 h2 == replace(h1, MarkerShortUpper, <<>>)
                 h3 == replace(h2, MarkerShort, <<>>)
             IN  <<Pair(strip(h3), "status_update_callback")>>
        ELSE <<Bare(house)>>

validate_house_field(house) ==
    LET match == RE_BUILDING_NUMBER(house)
    IN  IF isdecimal(house) THEN <<Bare(house)>>
        ELSE IF match.matched
        THEN <<Bare(match.house_number \o BuildingInfix \o match.building \o <<")">>)>>
        ELSE IF is_for_artificial_person(house)
        THEN LET h1 == replace(house, MarkerLongParen, <<>>)
                 h2 == replace(h1, MarkerShortUpper, <<>>)
                 h3 == replace(h2, MarkerShort, <<>>)
             IN  <<Pair(strip(h3), "status_update_callback")>>
        ELSE IF Contains(house, <<",">>)
        THEN LET houses == NonEmpty(split(replace(house, <<" ">>, <<>>), ","))
             IN  [i \in 1..Len(houses) |-> Bare(houses[i])]
        ELSE <<Bare(house)>>

validate_status_field(status) == <<Bare(status)>>
validate_region_field(region) == <<Bare(region)>>
validate_provider_field(provider) == <<Bare(provider)>>

(***************************************************************************)
(* Toponym                                                                 *)
(***************************************************************************)
\* "улица"
Ulica == <<"u", "l", "i", "c", "a">>

MANUAL_MAP ==
    << \* "3ий пер Волчецкого": ("переулок", "3-й Волчецкого")
       [key |-> <<"3", "i", "j", " ", "p", "e", "r", " ",
                  "V", "o", "l", "ch", "e", "c", "k", "o", "g", "o">>,
        type |-> <<"p", "e", "r", "e", "u", "l", "o", "k">>,
        name |-> <<"3", "-", "j", " ", "V", "o", "l", "ch", "e", "c", "k", "o", "g", "o">>],
       \* "А/Г ЛЕСНОЙ АЛЕКСАНДРОВА УЛ.": ("улица", "Александрова (агрогородок Лесной)")
       [key |-> <<"A", "/", "G", " ", "L", "E", "S", "N", "O", "J", " ",
                  "A", "L", "E", "K", "S", "A", "N", "D", "R", "O", "V", "A", " ",
                  "U", "L", ".">>,
        type |-> Ulica,
        name |-> <<"A", "l", "e", "k", "s", "a", "n", "d", "r", "o", "v", "a", " ", "(",
                   "a", "g", "r", "o", "g", "o", "r", "o", "d", "o", "k", " ",
                   "L", "e", "s", "n", "o", "j", ")">>] >>

ManualKeys == {MANUAL_MAP[i].key : i \in DOMAIN MANUAL_MAP}

\* Each rule: the alternatives of its pattern, in the pattern's order (matched
\* with regex.IGNORECASE), and its type label.
TYPE_MAP ==
    << \* (прз\.|пр\-д|проезд) -> проезд
       [alts |-> << <<"p", "r", "z", ".">>,
                    <<"p", "r", "-", "d">>,
                    <<"p", "r", "o", "e", "z", "d">> >>,
        type |-> <<"p", "r", "o", "e", "z", "d">>],
       \* (пос\.|поселок) -> поселок
       [alts |-> << <<"p", "o", "s", ".">>,
                    <<"p", "o", "s", "e", "l", "o", "k">> >>,
        type |-> <<"p", "o", "s", "e", "l", "o", "k">>],
       \* (мр\-н|микрорайон) -> микрорайон
       [alts |-> << <<"m", "r", "-", "n">>,
                    <<"m", "i", "k", "r", "o", "r", "a", "j", "o", "n">> >>,
        type |-> <<"m", "i", "k", "r", "o", "r", "a", "j", "o", "n">>],
       \* (а\/г) -> агрогородок
       [alts |-> << <<"a", "/", "g">> >>,
        type |-> <<"a", "g", "r", "o", "g", "o", "r", "o", "d", "o", "k">>],
       \* (переулок|пер\.) -> переулок
       [alts |-> << <<"p", "e", "r", "e", "u", "l", "o", "k">>,
                    <<"p", "e", "r", ".">> >>,
        type |-> <<"p", "e", "r", "e", "u", "l", "o", "k">>],
       \* (б\-р|бул\.|бульвар) -> бульвар
       [alts |-> << <<"b", "-", "r">>,
                    <<"b", "u", "l", ".">>,
                    <<"b", "u", "l", "sf", "v", "a", "r">> >>,
        type |-> <<"b", "u", "l", "sf", "v", "a", "r">>],
       \* (ул\,|\, ул\.|\, ул|ул\.|улица) -> улица
       [alts |-> << <<"u", "l", ",">>,
                    <<",", " ", "u", "l", ".">>,
                    <<",", " ", "u", "l">>,
                    <<"u", "l", ".">>,
                    <<"u", "l", "i", "c", "a">> >>,
        type |-> Ulica],
       \* (проспект|пр-кт|пр-т|пр\.) -> проспект
       [alts |-> << <<"p", "r", "o", "s", "p", "e", "k", "t">>,
                    <<"p", "r", "-", "k", "t">>,
                    <<"p", "r", "-", "t">>,
                    <<"p", "r", ".">> >>,
        type |-> <<"p", "r", "o", "s", "p", "e", "k", "t">>] >>

\* type_regex.search(name): the leftmost position where an alternative matches,
\* and there the first alternative that does.  start, end as 1-based inclusive
\* positions; found = FALSE for None.
search(alts, name) ==
    LET ls == lower(name)
        hits == {i \in 1..Len(name) : \E a \in DOMAIN alts : MatchAt(ls, i, alts[a])}
    IN  IF hits = {} THEN [found |-> FALSE, start |-> 0, end |-> 0]
        ELSE LET i == CHOOSE x \in hits : \A y \in hits : x <= y
                 a == CHOOSE x \in DOMAIN alts :
                        /\ MatchAt(ls, i, alts[x])
                        /\ \A y \in DOMAIN alts : MatchAt(ls, i, alts[y]) => x <= y
             IN  [found |-> TRUE, start |-> i, end |-> i + Len(alts[a]) - 1]

\* The text the code takes out of the name once a rule has matched:
\* name.replace(name[match.start():match.end()], "")
RemoveMatched(name, m) == replace(name, SubSeq(name, m.start, m.end), <<>>)

RECURSIVE ExtractFrom(_, _)
ExtractFrom(name, k) ==
    IF k > Len(TYPE_MAP) THEN [type |-> <<>>, name |-> strip(name)]
    ELSE LET m == search(TYPE_MAP[k].alts, name)
         IN  IF m.found
             THEN [type |-> TYPE_MAP[k].type, name |-> strip(RemoveMatched(name, m))]
             ELSE ExtractFrom(name, k + 1)

\* Toponym._extract_type_and_name; type <<>> stands for None
extract_type_and_name(name) == ExtractFrom(name, 1)

normalize_name(name) == title(name)

\* Toponym.tokenize: the (self._type, self._name) it assigns
tokenize(name, default_type) ==
    IF name \in ManualKeys
    THEN LET e == MANUAL_MAP[CHOOSE i \in DOMAIN MANUAL_MAP : MANUAL_MAP[i].key = name]
         IN  [type |-> e.type, name |-> e.name]
    ELSE LET r == extract_type_and_name(name)
         IN  [type |-> IF r.type = <<>> THEN default_type ELSE r.type,
              name |-> normalize_name(r.name)]

\* Toponym.format
format(t) == t.type \o <<" ">> \o t.name

validate_street_field(street) == <<Bare(format(tokenize(street, Ulica)))>>

(***************************************************************************)
(* Connection objects.  The Connection class lives in connection.py, which *)
(* is not part of the sources at hand; it is modelled as the record type   *)
(* the specification describes: six text fields, and a copy-with-override  *)
(* constructor returning a new independent object.  "src" is a ghost: the  *)
(* index of the input record an object derives from.                       *)
(***************************************************************************)
from_modified_connection(c, field, value) == [c EXCEPT !.f[field] = value]

\* status_update_callback(c): c.status = c.status + " (юридические лица)"
status_update_callback(c) == [c EXCEPT !.f.status = @ \o StatusSuffix]

(***************************************************************************)
(* ConnectionValidator                                                     *)
(***************************************************************************)
DefaultFields == <<"house", "provider", "region", "city", "street", "status">>

\* the keyword parameters __init__ declares
InitParameters == {"fields"}

\* the validate_<field>_field methods the class defines
StrategyNames == {"house", "provider", "region", "city", "street", "status"}

\* a lookup that never fails
HasStrategyAlways(field) == TRUE

\* getattr(self, "validate_{}_field".format(field)) finds a method
HasStrategy(field) == field \in StrategyNames

validate_strategy(field, value) ==
    CASE field = "city" -> validate_city_field(value)
      [] field = "house" -> validate_house_field(value)
      [] field = "status" -> validate_status_field(value)
      [] field = "region" -> validate_region_field(value)
      [] field = "provider" -> validate_provider_field(value)
      [] field = "street" -> validate_street_field(value)

\* A __validate_field generator frame: not started ("new"), suspended or running
\* ("run"), finished ("done"); c is the current connection of the outer loop,
\* fields what is left of the inner loop's iterator.
NewFrame(field) == [st |-> "new", field |-> field, c |-> 0, fields |-> <<>>]

\* What the try block of the inner loop does for a candidate f:
\*   "pair"       f is (value, callback): the callback runs on the new connection
\*   "IndexError" f is a string shorter than 2: f[1] raises
\*   "TypeError"  f is a longer string: f[1] is a character, calling it raises
\*                (the connection built from f[0] just before is dropped)
TryCallback(f) ==
    IF f.cb # "" THEN "pair"
    ELSE IF Len(f.v) < 2 THEN "IndexError"
    ELSE "TypeError"

\* the callback applied to the connection the new one was copied from
CallbackOnOriginal(c, conn) == c

\* The object the callback is applied to: callback(conn)
CallbackTarget(c, conn) == conn

\* The heap after the inner loop's body has run for candidate f of connection
\* c; the connection it yields is the last object of that heap.
Derive(h, c, field, f) ==
    IF TryCallback(f) = "pair"
    THEN LET conn == Len(h) + 1
             h1 == Append(h, from_modified_connection(h[c], field, f.v))
             t == CallbackTarget(c, conn)
         IN  [h1 EXCEPT ![t] = status_update_callback(@)]
    ELSE Append(h, from_modified_connection(h[c], field, f.v))

\* the whole input read ahead when the first item is taken
AdvanceInputEager(n) == Len(input)

\* The position of the input iterator after one item has been taken from it
AdvanceInput(n) == n + 1

Yield(S, id) == [S |-> S, kind |-> "item", id |-> id, exc |-> ""]
Stop(S) == [S |-> S, kind |-> "stop", id |-> 0, exc |-> ""]
Raise(S, exc) == [S |-> S, kind |-> "raise", id |-> 0, exc |-> exc]
Finish(S, k) == [S EXCEPT !.stages[k].st = "done"]

\* next() on the generator of stage k (k = 0: the input iterable), in state
\* S = [heap, stages, consumed]: runs the generator up to its next yield, its
\* return (StopIteration) or an exception leaving it.
RECURSIVE Resume(_, _)
Resume(k, S) ==
    IF k = 0
    THEN IF S.consumed < Len(input)
         THEN Yield([S EXCEPT !.consumed = AdvanceInput(@)], input[S.consumed + 1])
         ELSE Stop(S)
    ELSE LET fr == S.stages[k]
         IN  IF fr.st = "done" THEN Stop(S)
             ELSE IF fr.st = "new" /\ ~HasStrategy(fr.field)
             THEN Raise(Finish(S, k), "AttributeError")
             ELSE IF fr.fields # <<>>
             THEN LET made == Derive(S.heap, fr.c, fr.field, Head(fr.fields))
                  IN  Yield([S EXCEPT !.heap = made,
                                      !.stages[k].fields = Tail(@)],
                            Len(made))
             ELSE LET up == Resume(k - 1, [S EXCEPT !.stages[k].st = "run"])
                  IN  IF up.kind = "raise" THEN Raise(Finish(up.S, k), up.exc)
                      ELSE IF up.kind = "stop" THEN Stop(Finish(up.S, k))
                      ELSE IF fr.field \notin DOMAIN up.S.heap[up.id].f
                      THEN Raise(Finish(up.S, k), "AttributeError")
                      ELSE Resume(k,
                             [up.S EXCEPT !.stages[k] =
                                [st |-> "run", field |-> fr.field, c |-> up.id,
                                 fields |-> validate_strategy(fr.field,
                                               up.S.heap[up.id].f[fr.field])]])

(***************************************************************************)
(* Inputs                                                                  *)
(***************************************************************************)
MaxInput == 2
MaxHouseParts == 3
MaxStreetParts == 3

\* "тест", "ул. мая", "г. Минск", "Минск", "ок", "р", "п"
Test == <<"t", "e", "s", "t">>
UlMaya == <<"u", "l", ".", " ", "m", "a", "ya">>
GMinsk == <<"g", ".", " ", "M", "i", "n", "s", "k">>
Minsk == <<"M", "i", "n", "s", "k">>
Ok == <<"o", "k">>

Conn(house, city, street) ==
    [region |-> <<"r">>, city |-> city, street |-> street, provider |-> <<"p">>,
     house |-> house, status |-> Ok]

Pool ==
    << Conn(<<"2", ",", "3", ",", "2">>, GMinsk, Test),
       Conn(<<"2", ",", "3">>, GMinsk, Test),
       Conn(<<",", " ", ",">>, Minsk, Test),
       Conn(<<"2", " ">> \o MarkerShortUpper, Minsk, UlMaya),
       Conn(<<"2">>, Minsk, Test) >>

FieldChoices ==
    { <<>>, <<"house">>, <<"house", "city">>, <<"city", "house">>,
      <<"house", "bogus">>, <<"bogus", "city">> }

\* {'тест': ('улица', 'новая тестовая')}
PreMap ==
    [key |-> Test, type |-> Ulica,
     name |-> <<"n", "o", "v", "a", "ya", " ", "t", "e", "s", "t", "o", "v", "a", "ya">>]

KwargChoices ==
    {[names |-> {}, fields |-> <<>>]}
    \cup {[names |-> {"fields"}, fields |-> fs] : fs \in FieldChoices}
    \cup {[names |-> {"pre_replacement_street_map"}, fields |-> <<>>]}

RECURSIVE Concats(_, _)
Concats(parts, n) ==
    IF n = 0 THEN {<<>>}
    ELSE LET shorter == Concats(parts, n - 1)
         IN  shorter \cup {p \o q : p \in shorter, q \in parts}

HouseParts ==
    { <<"2">>, <<"3">>, <<"2", ",">>, <<",">>, <<" ">>, <<" ", "k", ".">>,
      MarkerShort, MarkerShortUpper, MarkerLongParen,
      \* "Юр. Лица"
      <<"YU", "r", ".", " ", "L", "i", "c", "a">> }

StreetParts ==
    { <<" ">>, <<"u", "l", ".">>, Ulica, <<"U", "L", ".">>, <<",", " ", "u", "l">>,
      <<"S", "a">>, <<"m", "a", "ya">>, <<"p", "r", ".">>,
      <<"p", "r", "o", "e", "z", "d">>, <<"p", "e", "r", ".">> }

HouseInputs == Concats(HouseParts, MaxHouseParts)
StreetInputs == Concats(StreetParts, MaxStreetParts) \cup ManualKeys

NoToponym ==
    [pc |-> "none", original_str |-> <<>>, default_type |-> <<>>,
     type |-> <<>>, name |-> <<>>, text |-> <<>>]

(***************************************************************************)
(* The caller: v = ConnectionValidator(...keyword arguments...);           *)
(* out = v.validate_connections(input); then next(out) until it ends.      *)
(***************************************************************************)
Init ==
    /\ kwargs \in KwargChoices
    /\ \E n \in 0..MaxInput : \E pick \in [1..n -> DOMAIN Pool] :
          /\ heap = [i \in 1..n |-> [f |-> Pool[pick[i]], src |-> i]]
          /\ input = [i \in 1..n |-> i]
    /\ fields = <<>>
    /\ stages = <<>>
    /\ consumed = 0
    /\ output = <<>>
    /\ last = "none"
    /\ pc = "new"
    /\ err = ""
    /\ toponym = NoToponym

\* ConnectionValidator.__init__(self, fields=None)
Construct ==
    /\ pc = "new"
    /\ IF kwargs.names \subseteq InitParameters
       THEN /\ fields' = IF kwargs.fields # <<>> THEN kwargs.fields ELSE DefaultFields
            /\ pc' = "constructed"
            /\ err' = err
       ELSE /\ fields' = fields
            /\ pc' = "failed"
            /\ err' = "TypeError"
    /\ UNCHANGED <<kwargs, input, heap, stages, consumed, output, last, toponym>>

\* validate_connections: wraps the input in one generator per field; no
\* generator body runs yet
validate_connections ==
    /\ pc = "constructed"
    /\ stages' = [k \in 1..Len(fields) |-> NewFrame(fields[k])]
    /\ pc' = "iterating"
    /\ UNCHANGED <<kwargs, fields, input, heap, consumed, output, last, err, toponym>>

\* The consumer's next() on the outermost generator
NextItem ==
    /\ pc = "iterating"
    /\ LET r == Resume(Len(stages), [heap |-> heap, stages |-> stages, consumed |-> consumed])
       IN  /\ heap' = r.S.heap
           /\ stages' = r.S.stages
           /\ consumed' = r.S.consumed
           /\ output' = IF r.kind = "item" THEN Append(output, r.id) ELSE output
           /\ last' = r.kind
           /\ pc' = CASE r.kind = "item" -> "iterating"
                      [] r.kind = "stop" -> "done"
                      [] r.kind = "raise" -> "failed"
           /\ err' = r.exc
    /\ UNCHANGED <<kwargs, fields, input, toponym>>

Next == Construct \/ validate_connections \/ NextItem

Spec == Init /\ [][Next]_vars

(***************************************************************************)
(* The house pass on its own: list(validator._validate_house([c])) with    *)
(* a default validator                                                     *)
(***************************************************************************)
InitHouse ==
    /\ kwargs = [names |-> {}, fields |-> <<>>]
    /\ fields = DefaultFields
    /\ \E h \in HouseInputs :
          heap = << [f |-> Conn(h, Minsk, Test), src |-> 1] >>
    /\ input = <<1>>
    /\ stages = <<NewFrame("house")>>
    /\ consumed = 0
    /\ output = <<>>
    /\ last = "none"
    /\ pc = "iterating"
    /\ err = ""
    /\ toponym = NoToponym

NextHouse == NextItem

SpecHouse == InitHouse /\ [][NextHouse]_vars

(***************************************************************************)
(* The toponym parser on its own: t = Toponym(s); t.format()               *)
(***************************************************************************)
InitToponym ==
    /\ kwargs = [names |-> {}, fields |-> <<>>]
    /\ fields = <<>> /\ input = <<>> /\ heap = <<>> /\ stages = <<>>
    /\ consumed = 0 /\ output = <<>> /\ last = "none" /\ pc = "idle" /\ err = ""
    /\ \E s \in StreetInputs :
          toponym = [NoToponym EXCEPT !.pc = "new", !.original_str = s,
                                      !.default_type = Ulica]

\* Toponym.__init__
ToponymInit ==
    /\ toponym.pc = "new"
    /\ LET t == tokenize(toponym.original_str, toponym.default_type)
       IN  toponym' = [toponym EXCEPT !.pc = "built", !.type = t.type, !.name = t.name]
    /\ UNCHANGED <<kwargs, fields, input, heap, stages, consumed, output, last, pc, err>>

\* Toponym.format
ToponymFormat ==
    /\ toponym.pc = "built"
    /\ toponym' = [toponym EXCEPT !.pc = "formatted", !.text = format(toponym)]
    /\ UNCHANGED <<kwargs, fields, input, heap, stages, consumed, output, last, pc, err>>

NextToponym == ToponymInit \/ ToponymFormat

SpecToponym == InitToponym /\ [][NextToponym]_vars

(***************************************************************************)
(* Properties                                                              *)
(***************************************************************************)
InRec(i) == heap[input[i]].f
OutRec(o) == heap[output[o]].f
\* the outputs that derive from input record i, in output order
OutputsOf(i) == SelectSeq(output, LAMBDA id : heap[id].src = i)
Configured(field) == \E k \in DOMAIN fields : fields[k] = field

\* The house numbers a comma-separated list names: its segments, stripped, the
\* empty ones left out
Segments(h) ==
    LET parts == split(h, ",")
    IN  NonEmpty([i \in 1..Len(parts) |-> strip(parts[i])])

\* h lists two or more decimal house numbers
IsHouseList(h) ==
    /\ Len(Segments(h)) >= 2
    /\ \A i \in 1..Len(Segments(h)) : isdecimal(Segments(h)[i])

NormalCity(city) == validate_city_field(city)[1].v

\* C1: after a full run with both the house and the city pass configured, every
\* input record whose house lists several house numbers and whose city needs
\* normalization has exactly one output per house number, in listed order,
\* each with the normalized city and the other fields of the input record.
C1_FanOutComposes ==
    (pc = "done" /\ Configured("house") /\ Configured("city")) =>
        \A i \in DOMAIN input :
            (IsHouseList(InRec(i).house) /\ NormalCity(InRec(i).city) # InRec(i).city) =>
                LET outs == OutputsOf(i)
                IN  /\ [o \in 1..Len(outs) |-> heap[outs[o]].f.house] = Segments(InRec(i).house)
                    /\ \A o \in 1..Len(outs) :
                          /\ heap[outs[o]].f.city = NormalCity(InRec(i).city)
                          /\ heap[outs[o]].f.region = InRec(i).region
                          /\ heap[outs[o]].f.provider = InRec(i).provider
                          /\ heap[outs[o]].f.status = InRec(i).status
                          /\ ~Configured("street") => heap[outs[o]].f.street = InRec(i).street

C3_HouseListFansOut ==
    (pc = "done" /\ IsHouseList(InRec(1).house)) =>
        [o \in 1..Len(output) |-> OutRec(o).house] = Segments(InRec(1).house)

\* C4: the house pass treats a value by the first branch whose condition it
\* satisfies and by no later one: a decimal value is kept as it is; else a
\* value matching the building pattern gives the single reformatted value,
\* commas or not; else a value with the marker gives a single record with the
\* suffixed status, commas or not; else a value with commas is split; else the
\* value is kept.
C4_OneBranchByPrecedence ==
    pc = "done" =>
        LET h == InRec(1).house
            m == RE_BUILDING_NUMBER(h)
            houses == [o \in 1..Len(output) |-> OutRec(o).house]
            untouched == \A o \in 1..Len(output) : OutRec(o).status = InRec(1).status
        IN  IF isdecimal(h) THEN houses = <<h>> /\ untouched
            ELSE IF m.matched
            THEN /\ houses = <<m.house_number \o BuildingInfix \o m.building \o <<")">> >>
                 /\ untouched
            ELSE IF is_for_artificial_person(h)
            THEN /\ Len(output) = 1
                 /\ OutRec(1).status = InRec(1).status \o StatusSuffix
            ELSE IF Contains(h, <<",">>)
            THEN /\ houses = NonEmpty(split(replace(h, <<" ">>, <<>>), ","))
                 /\ untouched
            ELSE houses = <<h>> /\ untouched

\* A value with both a marker and a comma has gone through the pass and gave
\* one record.
C4_Witness ==
    /\ pc = "done"
    /\ is_for_artificial_person(InRec(1).house)
    /\ Contains(InRec(1).house, <<",">>)
    /\ Len(output) = 1

\* C5: a house value that reaches the artificial-person branch gives exactly
\* one record, whose house holds no marker text in any letter case and whose
\* status is the input's with the suffix appended once.
C5_MarkerRemoved ==
    (/\ pc = "done"
     /\ ~isdecimal(InRec(1).house)
     /\ ~RE_BUILDING_NUMBER(InRec(1).house).matched
     /\ is_for_artificial_person(InRec(1).house)) =>
        /\ Len(output) = 1
        /\ ~is_for_artificial_person(OutRec(1).house)
        /\ OutRec(1).status = InRec(1).status \o StatusSuffix

UnknownFieldConfigured == \E k \in DOMAIN fields : fields[k] \notin StrategyNames

\* C6 as stated: with a field name that has no strategy, validation fails with
\* ConfigurationError.
C6_FailsWithConfigurationError ==
    (UnknownFieldConfigured /\ last # "none") =>
        (pc = "failed" /\ err = "ConfigurationError")

\* C6 amended: with a field name that has no strategy, wherever it stands in
\* the list and whatever the input, building the generator chain raises
\* nothing and the consumer's first next() fails with AttributeError before
\* any record is yielded.
C6_FailsWithAttributeError ==
    (UnknownFieldConfigured /\ pc # "new") =>
        IF last = "none"
        THEN pc \in {"constructed", "iterating"} /\ err = ""
        ELSE pc = "failed" /\ err = "AttributeError" /\ output = <<>>

\* The run failed on a field name without a strategy that stands first in the
\* list, with records waiting in the input.
C6_Witness ==
    /\ pc = "failed"
    /\ err = "AttributeError"
    /\ fields[1] \notin StrategyNames
    /\ input # <<>>

\* C7: whenever the consumer has just received a record, the items taken from
\* the input so far are exactly the prefix ending at the input record that
\* record derives from.
C7_Lazy ==
    last = "item" => consumed = heap[output[Len(output)]].src

\* The consumer holds two records fanned out of the first input record of a
\* six-field pipeline while the second input record has not been pulled.
C7_Witness ==
    /\ last = "item"
    /\ Len(fields) = Len(DefaultFields)
    /\ Len(output) = 2
    /\ consumed = 1
    /\ Len(input) = 2

\* C8: once a run of a validator given a pre_replacement_street_map is over,
\* every input record whose street is a key of the map has an output whose
\* street is the mapped "{type} {name}".
C8_PreReplacementApplied ==
    ("pre_replacement_street_map" \in kwargs.names /\ pc \in {"done", "failed"}) =>
        \A i \in DOMAIN input :
            InRec(i).street = PreMap.key =>
                \E o \in DOMAIN output :
                    /\ heap[output[o]].src = i
                    /\ OutRec(o).street = PreMap.type \o <<" ">> \o PreMap.name

\* the rules whose pattern occurs in s
RulesIn(s) == {k \in DOMAIN TYPE_MAP : search(TYPE_MAP[k].alts, s).found}

\* s without the span m
WithoutSpan(s, m) == SubSeq(s, 1, m.start - 1) \o SubSeq(s, m.end + 1, Len(s))

\* C9: for a raw string that is no manual-override key, the type is the label
\* of the first rule whose pattern occurs in it and the name is the raw string
\* without that rule's matched span, trimmed and title-cased; with no rule
\* matching, the type is the default and the name the trimmed, title-cased
\* string.
C9_OnlyMatchedSpanRemoved ==
    (toponym.pc \in {"built", "formatted"} /\ toponym.original_str \notin ManualKeys) =>
        LET s == toponym.original_str
        IN  IF RulesIn(s) = {}
            THEN /\ toponym.type = toponym.default_type
                 /\ toponym.name = title(strip(s))
            ELSE LET k == CHOOSE x \in RulesIn(s) : \A y \in RulesIn(s) : x <= y
                 IN  /\ toponym.type = TYPE_MAP[k].type
                     /\ toponym.name =
                            title(strip(WithoutSpan(s, search(TYPE_MAP[k].alts, s))))

\* C10: a full run yields at least one record for every input record, so at
\* least as many records as it was given.
C10_NoRecordDropped ==
    pc = "done" =>
        /\ \A i \in DOMAIN input : OutputsOf(i) # <<>>
        /\ Len(output) >= Len(input)
====
